---- MODULE Spec2Model ----
(***************************************************************************)
(* Model of PyPI/package_analysis.py: fetch a package archive, extract it, *)
(* scan the extracted files for imports and declared dependencies, and     *)
(* record the dependency edges in the `dependencies` table.                *)
(*                                                                         *)
(* Strings (URLs, paths, file texts, package names) are sequences of       *)
(* tokens: concatenation is \o, str.endswith is a suffix test, len and     *)
(* slicing count tokens.  ".tar.gz" is <<".", "tar", ".", "gz">>.          *)
(***************************************************************************)
EXTENDS Integers, Sequences, FiniteSets, TLC

\* ---------------------------------------------------------------- bounds
\* invocations (of main, or of store_dependencies on its own) in a behaviour
MaxRuns == 2
\* occurrence counts of the dependency maps are 1..MaxTimes
MaxTimes == 2
\* lines of the text get_imports is applied to on its own
MaxLines == 2

\* ------------------------------------------------------- string helpers
\* Python's None as a catalog id (ids of `packages` start at 1), and the
\* absence of an exception.
None == 0
NoExc == "NoExc"

EndsWith(s, suf) ==
    /\ Len(s) >= Len(suf)
    /\ SubSeq(s, Len(s) - Len(suf) + 1, Len(s)) = suf

StartsWith(s, pre) ==
    /\ Len(s) >= Len(pre)
    /\ SubSeq(s, 1, Len(pre)) = pre

\* s[:-n]
DropLast(s, n) == SubSeq(s, 1, Len(s) - n)

\* os.path.basename: everything after the last "/"
RECURSIVE basename(_)
basename(p) ==
    IF \E i \in 1..Len(p) : p[i] = "/"
    THEN basename(Tail(p))
    ELSE p

\* os.path.join(a, b)
join(a, b) == a \o <<"/">> \o b

RECURSIVE SetToSeq(_)
SetToSeq(S) ==
    IF S = {} THEN << >>
    ELSE LET x == CHOOSE y \in S : TRUE IN <<x>> \o SetToSeq(S \ {x})

Range(f) == {f[x] : x \in DOMAIN f}

EmptyMap == [x \in {} |-> 0]

\* ------------------------------------------------------ get_pkg_extension
TarGz == <<".", "tar", ".", "gz">>
Whl == <<".", "whl">>
NotImplementedError == "NotImplementedError"

get_pkg_extension_lenient(package_url) ==
    IF EndsWith(package_url, TarGz) THEN TarGz ELSE Whl

get_pkg_extension(package_url) ==
    IF EndsWith(package_url, TarGz) THEN TarGz
    ELSE IF EndsWith(package_url, Whl) THEN Whl
    ELSE NotImplementedError

\* ------------------------------------------------------------ the network
\* File texts served inside the archives.
TextTwiceBar == <<"import", " ", "bar", "\n", "x", "\n", "import", " ", "bar", "\n">>
TextSetup == <<"import", " ", "baz", "\n">>
TextReq == <<"baz", "\n">>
TextReadme == <<"import", " ", "qux", "\n">>
TextMixed == <<"from", " ", "bar", " ", "import", " ", "baz", "\n",
               " ", "import", " ", "os", ".", "path", "\n",
               "import", " ", "bar", " ", "as", " ", "b", "\n">>
TextWheel == <<"import", " ", "foo", ",", " ", "bar", "\n">>

\* An archive: valid (readable by tarfile/zipfile) and its member files.
ArchiveA == [valid |-> TRUE,
             members |-> (<<"m", ".", "py">> :> TextTwiceBar)
                      @@ (<<"setup", ".", "py">> :> TextSetup)
                      @@ (<<"requirements", ".", "txt">> :> TextReq)
                      @@ (<<"README", ".", "txt">> :> TextReadme)]
ArchiveE == [valid |-> TRUE, members |-> EmptyMap]
ArchiveW == [valid |-> TRUE,
             members |-> (<<"w", ".", "py">> :> TextWheel)
                      @@ (<<"pkg", "/", "n", ".", "py">> :> TextMixed)]
Truncated == [valid |-> FALSE, members |-> EmptyMap]

UrlA == <<"a", "/", "x", ".", "tar", ".", "gz">>
UrlE == <<"a", "/", "e", ".", "tar", ".", "gz">>
UrlW == <<"a", "/", "x", ".", "whl">>
UrlZ == <<"a", "/", "x", ".", "zip">>
Urls == {UrlA, UrlE, UrlW, UrlZ}

Remote(url) ==
    IF url = UrlA THEN ArchiveA
    ELSE IF url = UrlW THEN ArchiveW
    ELSE ArchiveE

\* Outcomes of urlretrieve: the whole archive arrives, the request fails
\* before the target file is created, or the transfer breaks off and
\* leaves a truncated target file.
NetOutcomes == {"ok", "refused", "truncated"}

\* ---------------------------------------------------------------- download
target_dir == <<"pypipackages">>

\* os.path.isdir in the place of os.path.exists
exists_dirs_only(dirs, files, p) == p \in dirs

\* os.path.exists
exists(dirs, files, p) == p \in dirs \/ p \in DOMAIN files

\* os.walk(top): the files below directory top
walk(dirs, files, top) ==
    IF top \in dirs
    THEN {p \in DOMAIN files : StartsWith(p, top \o <<"/">>)}
    ELSE {}

\* tar.extractall(dest): the destination directory comes into being only
\* with the first member that is written below it.
extractall(dirs, files, archive, dest) ==
    [dirs |-> IF DOMAIN archive.members = {} THEN dirs ELSE dirs \cup {dest},
     files |-> [p \in DOMAIN files \cup {join(dest, m) : m \in DOMAIN archive.members} |->
                  IF \E m \in DOMAIN archive.members : p = join(dest, m)
                  THEN archive.members[CHOOSE m \in DOMAIN archive.members : p = join(dest, m)]
                  ELSE files[p]]]

\* The whole of download(package_url) on the cache (dirs, files) with the
\* network answering net.  exc is NoExc when download returns.
downloadWith(ext, package_url, dirs, files, net) ==
    IF ext = NotImplementedError
    THEN [dirs |-> dirs, files |-> files, exc |-> NotImplementedError,
          fetched |-> FALSE, extracted |-> FALSE, filepaths |-> << >>]
    ELSE
    LET file_ending_len == Len(ext)
        dirs1 == IF ~exists(dirs, files, target_dir) THEN dirs \cup {target_dir} ELSE dirs
        pkg_name == basename(package_url)
        target == join(target_dir, pkg_name)
        fetch == ~exists(dirs1, files, target)
        files1 == IF fetch /\ net = "ok" THEN (target :> Remote(package_url)) @@ files
                  ELSE IF fetch /\ net = "truncated" THEN (target :> Truncated) @@ files
                  ELSE files
        dest == DropLast(target, file_ending_len)
        unpack == ~exists(dirs1, files1, dest)
        unpacked == extractall(dirs1, files1, files1[target], dest)
    IN  IF fetch /\ net # "ok"
        THEN [dirs |-> dirs1, files |-> files1, exc |-> "URLError",
              fetched |-> TRUE, extracted |-> FALSE, filepaths |-> << >>]
        ELSE IF unpack /\ ~(EndsWith(package_url, <<"tar", ".", "gz">>)
                            \/ EndsWith(package_url, Whl))
        THEN [dirs |-> dirs1, files |-> files1, exc |-> NotImplementedError,
              fetched |-> fetch, extracted |-> FALSE, filepaths |-> << >>]
        ELSE IF unpack /\ ~files1[target].valid
        THEN [dirs |-> dirs1, files |-> files1, exc |-> "ReadError",
              fetched |-> fetch, extracted |-> TRUE, filepaths |-> << >>]
        ELSE LET d2 == IF unpack THEN unpacked.dirs ELSE dirs1
                 f2 == IF unpack THEN unpacked.files ELSE files1
             IN [dirs |-> d2, files |-> f2, exc |-> NoExc,
                 fetched |-> fetch, extracted |-> unpack,
                 filepaths |-> SetToSeq(walk(d2, f2, dest))]

download(package_url, dirs, files, net) ==
    downloadWith(get_pkg_extension(package_url), package_url, dirs, files, net)

\* ---------------------------------------------------------------- get_imports
\* Tokens of a text: "\n", " " and "\t" are whitespace; a word of letters is
\* one token (two such tokens are never adjacent in a text); "_" and the
\* digit "2" continue an identifier; anything else is punctuation.
Spaces == {" ", "\t", "\n"}
Punct == {".", ",", ";", "=", "#"}
IsLetters(t) == t \notin Spaces \cup Punct \cup {"_", "2"}
IsIdentRest(t) == t \notin Spaces \cup Punct

\* \s* from position i: the first position that holds no whitespace
RECURSIVE SkipSpace(_, _)
SkipSpace(c, i) ==
    IF i <= Len(c) /\ c[i] \in Spaces THEN SkipSpace(c, i + 1) ELSE i

\* [a-zA-Z0-9_]* from position i: the first position past the identifier
RECURSIVE IdentEnd(_, _)
IdentEnd(c, i) ==
    IF i <= Len(c) /\ IsIdentRest(c[i]) THEN IdentEnd(c, i + 1) ELSE i

\* ^ under re.MULTILINE
LineStart(c, i) == i = 1 \/ c[i - 1] = "\n"

\* The keywords words, each followed by \s+, from position i: the position
\* after them, or 0 when they are not there.
RECURSIVE MatchWords(_, _, _)
MatchWords(c, i, words) ==
    IF words = << >> THEN i
    ELSE IF i + 1 <= Len(c) /\ c[i] = Head(words) /\ c[i + 1] \in Spaces
         THEN MatchWords(c, SkipSpace(c, i + 1), Tail(words))
         ELSE 0

\* One attempt of "^\s*" words "\s+([a-zA-Z][a-zA-Z0-9_]*)" at position i:
\* [end, name] of the match, end = 0 when there is none.
MatchAt(c, i, words) ==
    LET k == IF LineStart(c, i) THEN MatchWords(c, SkipSpace(c, i), words) ELSE 0
    IN  IF k # 0 /\ k <= Len(c) /\ IsLetters(c[k])
        THEN [end |-> IdentEnd(c, k + 1), name |-> SubSeq(c, k, IdentEnd(c, k + 1) - 1)]
        ELSE [end |-> 0, name |-> << >>]

\* pattern.findall(content): the captured names of the non-overlapping
\* matches, left to right.
RECURSIVE findall(_, _, _)
findall(words, c, i) ==
    IF i > Len(c) THEN << >>
    ELSE LET m == MatchAt(c, i, words)
         IN  IF m.end # 0 THEN <<m.name>> \o findall(words, c, m.end)
             ELSE findall(words, c, i + 1)

simple_pattern == <<"import">>
from_pattern == <<"from", "import">>

\* imports[name] += 1, for each name of the list
RECURSIVE Count(_, _)
Count(imports, names) ==
    IF names = << >> THEN imports
    ELSE LET n == Head(names)
             next == IF n \in DOMAIN imports
                     THEN [imports EXCEPT ![n] = @ + 1]
                     ELSE (n :> 1) @@ imports
         IN Count(next, Tail(names))

IsPy(f) == EndsWith(f, <<".", "py">>)

RECURSIVE ScanFiles(_, _, _)
ScanFiles(imports, filepaths, files) ==
    IF filepaths = << >> THEN imports
    ELSE LET content == files[Head(filepaths)]
             imported == findall(simple_pattern, content, 1)
                         \o findall(from_pattern, content, 1)
         IN ScanFiles(Count(imports, imported), Tail(filepaths), files)

get_imports(filepaths, files) ==
    ScanFiles(EmptyMap, SelectSeq(filepaths, IsPy), files)

\* ------------------------------------- get_requirements, get_setup_packages
get_requirements_parsed(filepaths) ==
    IF \E i \in 1..Len(filepaths) : EndsWith(filepaths[i], <<"requirements", ".", "txt">>)
    THEN (<<"baz">> :> 1)
    ELSE EmptyMap

get_requirements(filepaths) ==
    LET requirements_file == SelectSeq(filepaths,
            LAMBDA f : EndsWith(f, <<"requirements", ".", "txt">>))
    IN EmptyMap

get_setup_packages(filepaths) ==
    LET setup_py_file == SelectSeq(filepaths,
            LAMBDA f : EndsWith(f, <<"setup", ".", "py">>))
    IN EmptyMap

\* ------------------------------------------------------- get_pkg_id_by_name
\* The pre-populated `packages` table: name -> id.
catalog == (<<"foo">> :> 1) @@ (<<"bar">> :> 2) @@ (<<"baz">> :> 3)

get_pkg_id_by_name(pkg_name) ==
    IF pkg_name \in DOMAIN catalog THEN catalog[pkg_name] ELSE None

\* ------------------------------------------------------ the dependencies table
\* committed is the table as every connection sees it; working is the table
\* as the open connection of store_dependencies sees it (committed plus the
\* statements it has executed since its last commit).

\* The uniqueness constraint of `dependencies`.
UniqueKeyWithTimes(row) == <<row.package, row.needs_package, row.req_type, row.times>>

UniqueKey(row) == <<row.package, row.needs_package, row.req_type>>

\* What the store may do to one statement: answer it, reject the row for
\* another integrity reason, fail the statement, or fail the commit.
Faults == {"none", "integrity", "operational", "commit"}

Ok == [class |-> "ok", msg |-> ""]
DuplicateEntry == [class |-> "IntegrityError", msg |-> "Duplicate entry"]
OtherIntegrity == [class |-> "IntegrityError", msg |-> "foreign key constraint fails"]
Operational == [class |-> "OperationalError", msg |-> "server has gone away"]

\* REPLACE INTO instead of INSERT INTO
execute_replace(working, row, fault) ==
    IF fault = "operational" THEN [working |-> working, err |-> Operational]
    ELSE IF fault = "integrity" THEN [working |-> working, err |-> OtherIntegrity]
    ELSE [working |-> {r \in working : UniqueKey(r) # UniqueKey(row)} \cup {row},
          err |-> Ok]

\* cursor.execute("INSERT INTO `dependencies` ... VALUES ...")
execute(working, row, fault) ==
    IF fault = "operational" THEN [working |-> working, err |-> Operational]
    ELSE IF \E r \in working : UniqueKey(r) = UniqueKey(row)
    THEN [working |-> working, err |-> DuplicateEntry]
    ELSE IF fault = "integrity" THEN [working |-> working, err |-> OtherIntegrity]
    ELSE [working |-> working \cup {row}, err |-> Ok]

\* connection.commit()
commit_skipped(committed, working, fault) ==
    [committed |-> committed, err |-> Ok]

commit(committed, working, fault) ==
    IF fault = "commit" THEN [committed |-> committed, err |-> Operational]
    ELSE [committed |-> working, err |-> Ok]

\* except pymysql.err.IntegrityError as e: what becomes of an error raised
\* inside the try block
handle_reraise(err) ==
    IF err.class = "IntegrityError" /\ err.msg = "Duplicate entry"
    THEN [log |-> "none", exc |-> NoExc]
    ELSE [log |-> "none", exc |-> err.class]

handle(err) ==
    IF err.class = "IntegrityError"
    THEN [log |-> IF err.msg # "Duplicate entry" THEN "warning" ELSE "none",
          exc |-> NoExc]
    ELSE [log |-> "none", exc |-> err.class]

\* if package_info['needs_package'] is not None
resolved_unchecked(needs_package) == TRUE

resolved(needs_package) == needs_package # None

\* One pass of the loop body of insert_dependency_db for the entry
\* (pkg, times).
insert_entry(pkg, times, req_type, package_id, committed, working, fault) ==
    LET package_info == [package |-> package_id,
                         needs_package |-> get_pkg_id_by_name(pkg),
                         times |-> times,
                         req_type |-> req_type]
        ex == execute(working, package_info, fault)
        co == commit(committed, ex.working, fault)
        h == handle(IF ex.err # Ok THEN ex.err ELSE co.err)
    IN  IF ~resolved(package_info.needs_package)
        THEN [committed |-> committed, working |-> working, row |-> package_info,
              err |-> Ok, log |-> "info", exc |-> NoExc]
        ELSE IF ex.err # Ok
        THEN [committed |-> committed, working |-> ex.working, row |-> package_info,
              err |-> ex.err, log |-> h.log, exc |-> h.exc]
        ELSE IF co.err # Ok
        THEN [committed |-> co.committed, working |-> ex.working, row |-> package_info,
              err |-> co.err, log |-> h.log, exc |-> h.exc]
        ELSE [committed |-> co.committed, working |-> ex.working, row |-> package_info,
              err |-> Ok, log |-> "none", exc |-> NoExc]

\* store_dependencies calls the recorder in this order, with these maps.
KindOrder == <<"imported", "requirements.txt", "setup.py">>

\* main: the step after the catalog lookup of the package name
after_lookup_no_exit(package_id) == "scan"

after_lookup(package_id) == IF package_id = None THEN "exit1" ELSE "scan"

\* ------------------------------------------------------------------- state
VARIABLES
    dirs,        \* the directories on disk
    files,       \* the files on disk: path -> archive or text
    committed,   \* the rows of `dependencies`
    working,     \* the rows as the open connection sees them
    runs,        \* invocations started so far
    pc,          \* where the current invocation stands
    entry,       \* "main" or "store": what was invoked
    args,        \* main's package_name and package_url
    filepaths,   \* main: what download returned
    package_id,  \* the source package id
    maps,        \* the three dependency maps, in KindOrder
    kind,        \* index in KindOrder of the recorder call under way
    todo,        \* names of the current map not yet visited
    exc,         \* the exception that ended the invocation, or None
    atStart,     \* the rows of `dependencies` when the invocation started
    did,         \* the operations the invocation has performed
    dl,          \* what the download of this invocation did
    prev,        \* what the download call before it did
    inserted,    \* rows this invocation executed and committed
    rejected,    \* keys this invocation's inserts had rejected (non-duplicate)
    last         \* the last pass of the recorder's loop body

vars == <<dirs, files, committed, working, runs, pc, entry, args, filepaths,
          package_id, maps, kind, todo, exc, atStart, did, dl, prev, inserted,
          rejected, last>>

NoDl == [called |-> FALSE, url |-> << >>, fetched |-> FALSE, extracted |-> FALSE,
         exc |-> NoExc, paths |-> {}, members |-> {}, touched |-> FALSE]
NoLast == [pkg |-> << >>, row |-> Ok, err |-> Ok, log |-> "none", exc |-> NoExc,
           before |-> {}, after |-> {}]
NoArgs == [name |-> << >>, url |-> << >>]

\* ------------------------------------------------------------------ inputs
Times == 1..MaxTimes
PackageNames == {<<"foo">>, <<"nope">>}
DepNames == {<<"bar">>, <<"baz">>, <<"qux">>}
StoreIds == {1, 2}

\* The dependency maps store_dependencies is called with on its own.
ImportedMaps ==
    {(<<"bar">> :> t) @@ (<<"qux">> :> 1) : t \in Times}
    \cup {(<<"bar">> :> 1) @@ (<<"baz">> :> 1)}
DeclaredMaps ==
    {<<EmptyMap, EmptyMap>>, <<(<<"bar">> :> 1), (<<"baz">> :> MaxTimes)>>}

Ended == pc \in {"idle", "done", "exit1", "raised"}

Init ==
    /\ dirs = {}
    /\ files = EmptyMap
    /\ committed = {}
    /\ working = {}
    /\ runs = 0
    /\ pc = "idle"
    /\ entry = "none"
    /\ args = NoArgs
    /\ filepaths = << >>
    /\ package_id = None
    /\ maps = <<EmptyMap, EmptyMap, EmptyMap>>
    /\ kind = 1
    /\ todo = {}
    /\ exc = NoExc
    /\ atStart = {}
    /\ did = {}
    /\ dl = NoDl
    /\ prev = NoDl
    /\ inserted = {}
    /\ rejected = {}
    /\ last = NoLast

\* What every new invocation starts from.
Fresh ==
    /\ Ended
    /\ runs < MaxRuns
    /\ runs' = runs + 1
    /\ working' = committed
    /\ filepaths' = << >>
    /\ kind' = 1
    /\ todo' = {}
    /\ exc' = NoExc
    /\ atStart' = committed
    /\ did' = {}
    /\ dl' = NoDl
    /\ prev' = IF dl.called THEN dl ELSE prev
    /\ inserted' = {}
    /\ rejected' = {}
    /\ last' = NoLast
    /\ UNCHANGED <<dirs, files, committed>>

\* python package_analysis.py --name package_name -p package_url
StartMain ==
    \E package_name \in PackageNames, package_url \in Urls :
        /\ Fresh
        /\ entry' = "main"
        /\ args' = [name |-> package_name, url |-> package_url]
        /\ package_id' = None
        /\ maps' = <<EmptyMap, EmptyMap, EmptyMap>>
        /\ pc' = "download"

\* store_dependencies(mysql, package_id, required, imported, setup) called
\* on its own
StartStore ==
    \E id \in StoreIds, imported_packages \in ImportedMaps, declared \in DeclaredMaps :
        /\ Fresh
        /\ entry' = "store"
        /\ args' = NoArgs
        /\ package_id' = id
        /\ maps' = <<imported_packages, declared[1], declared[2]>>
        /\ pc' = "store"

\* main: filepaths = download(package_url)
Download ==
    /\ pc = "download"
    /\ \E net \in NetOutcomes :
        LET r == download(args.url, dirs, files, net)
            target == join(target_dir, basename(args.url))
        IN  /\ dirs' = r.dirs
            /\ files' = r.files
            /\ filepaths' = r.filepaths
            /\ dl' = [called |-> TRUE, url |-> args.url, fetched |-> r.fetched,
                      extracted |-> r.extracted, exc |-> r.exc,
                      paths |-> Range(r.filepaths),
                      members |-> IF target \in DOMAIN r.files
                                  THEN DOMAIN r.files[target].members ELSE {},
                      touched |-> r.dirs # dirs \/ r.files # files]
            /\ exc' = r.exc
            /\ pc' = IF r.exc = NoExc THEN "lookup" ELSE "raised"
    /\ did' = did \cup {"download"}
    /\ UNCHANGED <<committed, working, runs, entry, args, package_id, maps, kind,
                   todo, atStart, prev, inserted, rejected, last>>

\* main: package_id = get_pkg_id_by_name(pkg_name, mysql), and the exit
Lookup ==
    /\ pc = "lookup"
    /\ package_id' = get_pkg_id_by_name(args.name)
    /\ pc' = after_lookup(package_id')
    /\ did' = did \cup {"lookup"}
    /\ UNCHANGED <<dirs, files, committed, working, runs, entry, args, filepaths,
                   maps, kind, todo, exc, atStart, dl, prev, inserted, rejected, last>>

\* main: the three extractors
Scan ==
    /\ pc = "scan"
    /\ maps' = <<get_imports(filepaths, files),
                 get_requirements(filepaths),
                 get_setup_packages(filepaths)>>
    /\ pc' = "store"
    /\ did' = did \cup {"scan"}
    /\ UNCHANGED <<dirs, files, committed, working, runs, entry, args, filepaths,
                   package_id, kind, todo, exc, atStart, dl, prev, inserted,
                   rejected, last>>

\* store_dependencies: connect, and enter the first recorder call
Connect ==
    /\ pc = "store"
    /\ working' = committed
    /\ kind' = 1
    /\ todo' = DOMAIN maps[1]
    /\ pc' = "insert"
    /\ did' = did \cup {"connect"}
    /\ UNCHANGED <<dirs, files, committed, runs, entry, args, filepaths, package_id,
                   maps, exc, atStart, dl, prev, inserted, rejected, last>>

\* insert_dependency_db: one pass of the loop, for any entry not yet visited
InsertEntry ==
    /\ pc = "insert"
    /\ \E pkg \in todo, fault \in Faults :
        LET r == insert_entry(pkg, maps[kind][pkg], KindOrder[kind], package_id,
                              committed, working, fault)
        IN  /\ committed' = r.committed
            /\ working' = r.working
            /\ todo' = todo \ {pkg}
            /\ exc' = r.exc
            /\ pc' = IF r.exc = NoExc THEN "insert" ELSE "raised"
            /\ inserted' = IF r.err = Ok /\ r.log = "none"
                           THEN inserted \cup {r.row} ELSE inserted
            /\ rejected' = IF r.err = OtherIntegrity
                           THEN rejected \cup {<<r.row.package, r.row.needs_package, r.row.req_type>>}
                           ELSE rejected
            /\ last' = [pkg |-> pkg, row |-> r.row, err |-> r.err, log |-> r.log,
                        exc |-> r.exc, before |-> committed, after |-> r.committed]
    /\ did' = did \cup {"insert"}
    /\ UNCHANGED <<dirs, files, runs, entry, args, filepaths, package_id, maps, kind,
                   atStart, dl, prev>>

\* the loop of one recorder call is over: the next call, or the end
NextKind ==
    /\ pc = "insert"
    /\ todo = {}
    /\ IF kind < Len(KindOrder)
       THEN /\ kind' = kind + 1
            /\ todo' = DOMAIN maps[kind + 1]
            /\ pc' = "insert"
       ELSE /\ pc' = "done"
            /\ UNCHANGED <<kind, todo>>
    /\ UNCHANGED <<dirs, files, committed, working, runs, entry, args, filepaths,
                   package_id, maps, exc, atStart, did, dl, prev, inserted,
                   rejected, last>>

Next ==
    \/ StartMain
    \/ StartStore
    \/ Download
    \/ Lookup
    \/ Scan
    \/ Connect
    \/ InsertEntry
    \/ NextKind

Spec == Init /\ [][Next]_vars

\* ------------------------------------------------ get_imports on its own

ScanLines == {
    <<"import", " ", "bar">>,
    <<"import">>,
    <<"from", " ", "import", " ", "baz">>,
    <<"from", " ", "bar", " ", "import", " ", "baz">>,
    <<"\t", "import", " ", "bar", "2", ".", "x", " ", "as", " ", "b">>,
    <<"import", " ", "_", "p", ",", " ", "baz">>,
    <<"bar", " ", "=", " ", "import", " ", "baz">>,
    <<"from">>,
    << >>
}

RECURSIVE Unlines(_)
Unlines(ls) ==
    IF ls = << >> THEN << >> ELSE Head(ls) \o <<"\n">> \o Unlines(Tail(ls))

ScanTexts == {Unlines(ls) : ls \in UNION {[1..n -> ScanLines] : n \in 0..MaxLines}}

PathM == <<"pkg", "/", "m", ".", "py">>
PathN == <<"pkg", "/", "n", ".", "py">>
PathT == <<"pkg", "/", "notes", ".", "txt">>
PathC == <<"pkg", "/", "m", ".", "pyc">>

\* The other files a scanned list may hold besides m.py.
ScanTails == {<< >>, <<PathN>>, <<PathT>>, <<PathC>>, <<PathM>>}

InitScan ==
    /\ dirs = {<<"pkg">>}
    /\ \E text \in ScanTexts :
        files = (PathM :> text) @@ (PathN :> TextTwiceBar)
                @@ (PathT :> TextReadme) @@ (PathC :> TextSetup)
    /\ \E tail \in ScanTails : filepaths = <<PathM>> \o tail
    /\ committed = {}
    /\ working = {}
    /\ runs = 1
    /\ pc = "scan"
    /\ entry = "get_imports"
    /\ args = NoArgs
    /\ package_id = None
    /\ maps = <<EmptyMap, EmptyMap, EmptyMap>>
    /\ kind = 1
    /\ todo = {}
    /\ exc = NoExc
    /\ atStart = {}
    /\ did = {}
    /\ dl = NoDl
    /\ prev = NoDl
    /\ inserted = {}
    /\ rejected = {}
    /\ last = NoLast

SpecScan == InitScan /\ [][Scan]_vars

\* ================================================================== claims
SameTriple(r1, r2) ==
    /\ r1.package = r2.package
    /\ r1.needs_package = r2.needs_package
    /\ r1.req_type = r2.req_type

Visited == "insert" \in did /\ last.pkg # << >>

\* C1: whatever recorder invocations have run (any maps, any source id, any
\* of the three kinds), `dependencies` holds at most one row per
\* (package, needs_package, req_type).
C1_OneEdgePerTriple ==
    \A r1 \in committed : \A r2 \in committed : SameTriple(r1, r2) => r1 = r2

\* A second insert of a recorded triple, with another count, has been tried.
C1_Witness ==
    /\ Visited
    /\ last.err = DuplicateEntry
    /\ \E r \in committed : SameTriple(r, last.row) /\ r.times # last.row.times

\* C2: a recorder pass for a dependency whose edge is already in the table
\* (same source id, target and kind; same or another count) leaves the table
\* as it was - no second row, the stored count untouched - and the
\* uniqueness conflict it meets does not reach the caller, nor the log.
C2_RepeatLeavesTable ==
    (Visited /\ \E r \in last.before : SameTriple(r, last.row)) =>
        /\ last.after = last.before
        /\ committed = last.before
        /\ (last.err = DuplicateEntry =>
                last.exc = NoExc /\ last.log = "none" /\ pc # "raised")

\* An edge recorded by an earlier invocation met again with another count.
C2_Witness ==
    /\ Visited
    /\ last.err = DuplicateEntry
    /\ pc = "insert"
    /\ \E r \in atStart : SameTriple(r, last.row) /\ r.times # last.row.times
    /\ committed = last.before

\* C3 as claimed: any store error other than a uniqueness conflict on one
\* insert is logged as a warning and leaves the batch running, no exception
\* leaving insert_dependency_db.
C3_AnyStoreErrorSwallowed ==
    (Visited /\ last.err \notin {Ok, DuplicateEntry}) =>
        last.log = "warning" /\ last.exc = NoExc /\ pc # "raised"

\* C3 as amended: an IntegrityError that is no uniqueness conflict is logged
\* as a warning, changes nothing in the table and leaves the batch running
\* with the entry behind it; a store error of any other class is not caught
\* and ends insert_dependency_db with that exception.
C3_IntegrityErrorSwallowed ==
    /\ (Visited /\ last.err = OtherIntegrity) =>
            /\ last.log = "warning"
            /\ last.exc = NoExc
            /\ last.after = last.before
            /\ committed = last.before
            /\ pc \in {"insert", "done"}
    /\ (Visited /\ last.err.class \notin {"ok", "IntegrityError"}) =>
            /\ pc = "raised"
            /\ exc = last.err.class

\* After a rejected insert the batch went on and inserted a later entry.
C3_Witness ==
    /\ rejected # {}
    /\ last.err = Ok
    /\ last.row \in inserted
    /\ last.row \in committed

\* The download before this one was for the same URL and returned.
Repeated == dl.called /\ prev.called /\ prev.url = dl.url /\ prev.exc = NoExc

\* C4 as claimed: the second of two downloads of one URL fetches nothing,
\* extracts nothing and returns the same paths.
C4_SecondCallDoesNothing ==
    Repeated =>
        /\ ~dl.fetched
        /\ ~dl.extracted
        /\ dl.exc = NoExc
        /\ dl.paths = prev.paths

\* C4 as amended: the second download of one URL fetches nothing and returns
\* the same paths; it extracts again only when the archive has no member, in
\* which case no extraction directory exists and both calls return no path.
C4_SecondCallNoFetchSamePaths ==
    Repeated =>
        /\ ~dl.fetched
        /\ dl.exc = NoExc
        /\ dl.paths = prev.paths
        /\ (dl.extracted => dl.members = {} /\ dl.paths = {})

\* A second download of an archive with files: nothing fetched or extracted.
C4_Witness ==
    /\ Repeated
    /\ prev.fetched
    /\ prev.extracted
    /\ dl.paths # {}
    /\ ~dl.fetched
    /\ ~dl.extracted

Unsupported(url) == ~EndsWith(url, TarGz) /\ ~EndsWith(url, Whl)

\* C5: download of a URL that ends neither in .tar.gz nor in .whl raises the
\* unsupported-format error with nothing done: nothing fetched, nothing
\* extracted, disk (cache directory included) and table as before.
C5_UnsupportedFailsClean ==
    (entry = "main" /\ Unsupported(args.url)) =>
        /\ did \subseteq {"download"}
        /\ committed = atStart
        /\ ("download" \in did =>
                /\ pc = "raised"
                /\ exc = NotImplementedError
                /\ ~dl.fetched
                /\ ~dl.extracted
                /\ ~dl.touched)

\* The very first invocation, for a .zip: raised, and still no cache directory.
C5_Witness ==
    /\ entry = "main"
    /\ Unsupported(args.url)
    /\ pc = "raised"
    /\ exc = NotImplementedError
    /\ dirs = {}
    /\ files = EmptyMap

Unresolvable == entry = "main" /\ args.name \notin DOMAIN catalog

\* C6 as claimed: when the package name does not resolve, the run exits with
\* code 1 and no fetch, extraction, scan, recorder call or insert has happened.
C6_ExitBeforeAnyWork ==
    (Unresolvable /\ pc = "exit1") =>
        /\ ~dl.fetched
        /\ ~dl.extracted
        /\ did \cap {"scan", "connect", "insert"} = {}
        /\ committed = atStart

\* C6 as amended: when the package name does not resolve, the run never
\* scans, never calls the recorder and inserts nothing; it ends with exit
\* code 1 after download has returned (the archive may have been fetched and
\* extracted by then), or earlier with the exception download raised.
C6_ExitBeforeScanAndStore ==
    Unresolvable =>
        /\ did \subseteq {"download", "lookup"}
        /\ committed = atStart
        /\ pc \in {"download", "lookup", "exit1", "raised"}
        /\ (pc = "exit1" => did = {"download", "lookup"} /\ dl.called /\ dl.exc = NoExc)
        /\ (pc = "raised" => did = {"download"} /\ dl.exc # NoExc)

\* Exit code 1 with the archive fetched and extracted.
C6_Witness ==
    /\ Unresolvable
    /\ pc = "exit1"
    /\ dl.fetched
    /\ dl.extracted
    /\ dl.paths # {}

Edge(id, n, req_type, times) ==
    [package |-> id, needs_package |-> catalog[n], times |-> times, req_type |-> req_type]

\* C7: a run of main that completes on an empty table, with the package name
\* resolved and every insert accepted by the store, leaves exactly the
\* edges (s, id(n), "imported", c(n)) of the names n the scanner returned
\* that resolve; no edge of the other two kinds, whatever the archive holds.
C7_CompleteRunEdges ==
    (entry = "main" /\ pc = "done" /\ atStart = {} /\ rejected = {}) =>
        /\ package_id = catalog[args.name]
        /\ committed = {Edge(package_id, n, "imported", maps[1][n]) :
                            n \in DOMAIN maps[1] \cap DOMAIN catalog}
        /\ \A r \in committed : r.req_type \notin {"requirements.txt", "setup.py"}

\* The archive with m.py (import bar twice), setup.py (import baz) and a
\* requirements.txt: two imported edges and nothing else.
C7_Witness ==
    /\ entry = "main"
    /\ pc = "done"
    /\ atStart = {}
    /\ args.url = UrlA
    /\ \E p \in Range(filepaths) : EndsWith(p, <<"requirements", ".", "txt">>)
    /\ committed = {Edge(1, <<"bar">>, "imported", 2), Edge(1, <<"baz">>, "imported", 1)}

\* The line-by-line reading of C8: the text is cut into lines and a line counts
\* for n when, after its leading whitespace, it reads `import n...` or
\* `from import n...`; the result is the count of such lines per name over
\* the files of the list that end in .py.
RECURSIVE SplitLines(_)
SplitLines(c) ==
    IF c = << >> THEN << >>
    ELSE LET nl == IF \E i \in 1..Len(c) : c[i] = "\n"
                   THEN CHOOSE i \in 1..Len(c) :
                            c[i] = "\n" /\ \A j \in 1..(i - 1) : c[j] # "\n"
                   ELSE Len(c) + 1
         IN <<SubSeq(c, 1, nl - 1)>> \o SplitLines(SubSeq(c, nl + 1, Len(c)))

RECURSIVE LineNames(_)
LineNames(ls) ==
    IF ls = << >> THEN << >>
    ELSE LET plain == MatchAt(Head(ls), 1, <<"import">>)
             literal == MatchAt(Head(ls), 1, <<"from", "import">>)
         IN (IF plain.end # 0 THEN <<plain.name>>
             ELSE IF literal.end # 0 THEN <<literal.name>>
             ELSE << >>) \o LineNames(Tail(ls))

RECURSIVE ClaimedImports(_, _, _)
ClaimedImports(imports, paths, texts) ==
    IF paths = << >> THEN imports
    ELSE ClaimedImports(
            IF EndsWith(Head(paths), <<".", "py">>)
            THEN Count(imports, LineNames(SplitLines(texts[Head(paths)])))
            ELSE imports,
            Tail(paths), texts)

\* C8: for any list of paths, get_imports returns exactly the per-line counts
\* above: keys the names matched in the .py files, values the number of
\* matching lines.
C8_CountsMatchingLines ==
    (entry = "get_imports" /\ pc = "store") =>
        maps[1] = ClaimedImports(EmptyMap, filepaths, files)

\* C9: a name the catalog does not know is skipped - table untouched, an
\* info line, no exception, the loop goes on - and when the invocation is
\* done every entry that resolves and was not rejected by the store has its
\* edge in the table, in whatever order the entries were visited.
C9_UnknownNameSkipped ==
    /\ (Visited /\ last.pkg \notin DOMAIN catalog) =>
            /\ last.after = last.before
            /\ committed = last.before
            /\ working = last.before
            /\ last.log = "info"
            /\ last.exc = NoExc
            /\ pc \in {"insert", "done"}
    /\ (pc = "done" /\ package_id # None) =>
            \A k \in 1..Len(KindOrder) : \A n \in DOMAIN maps[k] \cap DOMAIN catalog :
                \/ <<package_id, catalog[n], KindOrder[k]>> \in rejected
                \/ \E r \in committed : SameTriple(r, Edge(package_id, n, KindOrder[k], 0))

\* The unknown name was visited first, the known one after it was inserted.
C9_Witness ==
    /\ Visited
    /\ kind = 1
    /\ todo = {}
    /\ <<"qux">> \in DOMAIN maps[1]
    /\ last.pkg = <<"bar">>
    /\ last.row \in inserted
    /\ last.row \in committed

\* The entries a stopped run has not visited: the rest of the current map
\* and the maps of the later kinds.
Unvisited ==
    {kn \in (1..Len(KindOrder)) \X UNION {DOMAIN maps[k] : k \in 1..Len(KindOrder)} :
        /\ kn[2] \in DOMAIN maps[kn[1]]
        /\ kn[1] > kind \/ (kn[1] = kind /\ kn[2] \in todo)}

\* C10: when an exception leaves insert_dependency_db, the table holds what
\* it held before the invocation plus every edge the invocation had inserted
\* until then (each was committed on its own), and the invocation has added
\* no edge for an entry it had not visited yet, of this kind or a later one.
C10_PartialBatchStays ==
    (pc = "raised" /\ "insert" \in did) =>
        /\ committed = atStart \cup inserted
        /\ \A kn \in Unvisited : \A r \in committed \ atStart :
                kn[2] \in DOMAIN catalog =>
                    ~SameTriple(r, Edge(package_id, kn[2], KindOrder[kn[1]], 0))

\* Stopped with one edge inserted and entries of later kinds never visited.
C10_Witness ==
    /\ pc = "raised"
    /\ "insert" \in did
    /\ inserted # {}
    /\ inserted \subseteq committed
    /\ inserted \cap atStart = {}
    /\ \E k \in (kind + 1)..Len(KindOrder) : DOMAIN maps[k] # {}

====
